---------------------------- MODULE Spec2Model ----------------------------
(***************************************************************************)
(* Webhook ingestion of sopel-github: the POST /webhook handler, the       *)
(* gh_hooks subscription table it reads, the gh-hook command that writes   *)
(* the table, and the event dispatch of get_formatted_response.            *)
(*                                                                         *)
(* The handler is src/sopel_modules/github/webhook.py.  It runs inside     *)
(* wsgiref's single-threaded server, so one request is in progress at a    *)
(* time; the bot's commands run on other threads and interleave with it.   *)
(* Names the handler uses without importing (json, fmt_repo, fmt_name)     *)
(* are read as the standard json module and the formatting helpers.        *)
(***************************************************************************)
EXTENDS Naturals, Integers, Sequences, FiniteSets, TLC

VARIABLES
    hooks,          \* gh_hooks table: (channel, repo_name) -> "absent" | "enabled" | "disabled"
    secret,         \* the shared webhook secret, "none" when unset; no handler reads it
    req,            \* the request in progress: headers and body as received
    pc,             \* position of the handler: idle, received, parsed, loop, blocked, done
    payload,        \* local payload of webhook(); meaningful once seen.parsed
    targets,        \* local targets / channels of webhook(): sequence of rows
    ti,             \* index of the row the for-loop is at
    messages,       \* lines of the current row still to be sent
    sent,           \* lines handed to sopel_instance.msg for this request: <<channel, line>>
    resp,           \* HTTP response of this request: [status, channels]
    seen,           \* history of this request: what the handler has done
    call,           \* a formatter function under evaluation: its name and arguments
    result,         \* what the call returned, "pending" before it returns
    current_row,    \* formatting.current_row: the row the formatter helpers read
    current_payload,\* formatting.current_payload: the payload the helpers read
    tasks           \* the formatter calls in progress, one per request handled

\* the state of the webhook handler and of the subscription table
hookvars == <<hooks, secret, req, pc, payload, targets, ti, messages, sent, resp, seen>>

\* the state of the formatting module
fmtvars == <<call, result, current_row, current_payload, tasks>>

vars == <<hooks, secret, req, pc, payload, targets, ti, messages, sent, resp, seen,
          call, result, current_row, current_payload, tasks>>

---------------------------------------------------------------------------
(* Inputs *)

Channels == {"#a", "#b"}

\* repository names as stored in gh_hooks (configure_repo_messages lowercases them)
Repos == {"o/r", "o/s"}

\* repository full names as they arrive in payloads
FullNames == {"o/r", "O/R", "o/s"}

\* str.lower() on the full names of the model
Lower(s) == IF s = "O/R" THEN "o/r" ELSE s

\* raw bodies: a JSON object, text that is not JSON, or a body bottle does not
\* read as JSON (empty, or a content type other than application/json)
BodyKinds == {"json", "malformed", "nojson"}

NoAction == [name |-> "", tail |-> ""]

Action(n) == [name |-> n, tail |-> ""]

\* payloads of the model: event kind comes from the header, not from here
Payload(fn, act, label, commits) ==
    [full_name |-> fn, action |-> act, label |-> label, changes |-> {},
     review_state |-> "", review_body |-> "none", commits |-> commits]

\* longest commit list of a push payload of the model
MaxCommits == 1

\* a commit of a push payload: its distinct flag and whether its message is blank
Commits == [distinct : BOOLEAN, blank : {FALSE}]

CommitLists == UNION { [1..n -> Commits] : n \in 0..MaxCommits }

\* X-GitHub-Event header values of the model; "" is a missing header and "fork"
\* a kind get_formatted_response does not know
EventHeaders == {"", "ping", "push", "issues", "fork"}

\* the payloads GitHub sends with each event kind
PayloadInputs(event) ==
    IF event = "push"
    THEN { Payload(fn, NoAction, FALSE, cs) : fn \in FullNames, cs \in CommitLists }
    ELSE IF event = "issues"
    THEN { Payload(fn, Action("opened"), FALSE, <<>>) : fn \in FullNames }
         \cup { Payload(fn, Action("labeled"), l, <<>>) :
                   fn \in FullNames, l \in BOOLEAN }
    ELSE { Payload(fn, NoAction, FALSE, <<>>) : fn \in FullNames }

\* the payload carried along by a request whose body is not a JSON object
NoPayload == Payload("o/r", NoAction, FALSE, <<>>)

\* keyed digest of a body: an ideal keyed hash, equal only for equal key and body
HmacSha1(key, body) == <<key, body>>

\* X-Hub-Signature header values of the model: missing, or "<digestName>=<hexDigest>"
NoSignature == [present |-> FALSE, digest |-> "", hex |-> <<>>]

Signature(d, h) == [present |-> TRUE, digest |-> d, hex |-> h]

RawBody(kind, p) == <<kind, p>>

SignatureInputs(kind, p) ==
    { NoSignature,
      Signature("sha1", HmacSha1("s1", RawBody(kind, p))),
      Signature("sha1", HmacSha1("s2", RawBody(kind, p))),
      Signature("sha1", HmacSha1("s1", RawBody("tampered", p))),
      Signature("md5", HmacSha1("s1", RawBody(kind, p))) }

---------------------------------------------------------------------------
(* Pure functions *)

\* re.match(alternatives, action): the pattern is anchored at the start only
ReMatch(names, action) == action.name \in names

\* action == name
ActionIs(name, action) == action.name = name /\ action.tail = ""

get_distinct_commits(p) ==
    SelectSeq(p.commits, LAMBDA c : c.distinct /\ ~c.blank)

\* the lines get_formatted_response returns, each named by the formatter that made it
get_formatted_response(p, event) ==
    IF event = "push" THEN
        <<"push_summary">> \o [i \in 1..Len(get_distinct_commits(p)) |-> "commit"]
    ELSE IF event = "commit_comment" THEN <<"commit_comment_summary">>
    ELSE IF event = "pull_request" THEN
        IF ReMatch({"opened", "reopened", "closed"}, p.action)
           \/ ActionIs("ready_for_review", p.action)
           \/ ActionIs("converted_to_draft", p.action)
        THEN <<"pull_request_summary">>
        ELSE IF ActionIs("edited", p.action) THEN
            IF "title" \in p.changes THEN <<"pull_request_title_edit">> ELSE <<>>
        ELSE IF ReMatch({"assigned", "unassigned"}, p.action) THEN <<"issue_assignee">>
        ELSE IF ReMatch({"labeled", "unlabeled"}, p.action) THEN
            IF p.label THEN <<"issue_label">> ELSE <<>>
        ELSE <<>>
    ELSE IF event = "pull_request_review" THEN
        IF ActionIs("submitted", p.action)
           /\ p.review_state \in {"approved", "changes_requested", "commented"}
        THEN IF p.review_state = "commented" /\ p.review_body = "none"
             THEN <<>>
             ELSE <<"pull_request_review_summary">>
        ELSE IF ActionIs("dismissed", p.action)
             THEN <<"pull_request_review_dismissal">>
             ELSE <<>>
    ELSE IF event = "pull_request_review_comment" /\ ActionIs("created", p.action)
        THEN <<"pull_request_review_comment_summary">>
    ELSE IF event = "issues" THEN
        IF ReMatch({"opened", "reopened", "closed"}, p.action) THEN
            IF {"old_repository", "old_issue"} \subseteq p.changes
            THEN <<"issue_incoming_transfer">>
            ELSE <<"issue_summary">>
        ELSE IF ReMatch({"assigned", "unassigned"}, p.action) THEN <<"issue_assignee">>
        ELSE IF ReMatch({"labeled", "unlabeled"}, p.action) THEN
            IF p.label THEN <<"issue_label">> ELSE <<>>
        ELSE IF ReMatch({"milestoned", "demilestoned"}, p.action)
            THEN <<"issue_milestone">>
        ELSE IF ActionIs("edited", p.action) THEN
            IF "title" \in p.changes THEN <<"issue_title_edit">> ELSE <<>>
        ELSE IF ActionIs("transferred", p.action) THEN <<"issue_outgoing_transfer">>
        ELSE <<>>
    ELSE IF event = "issue_comment" /\ ActionIs("created", p.action)
        THEN <<"issue_comment_summary">>
    ELSE IF event = "gollum" THEN <<"gollum_summary">>
    ELSE IF event = "watch" THEN <<"watch">>
    ELSE IF event = "status" THEN <<"status">>
    ELSE IF event = "release" THEN
        IF ActionIs("published", p.action) THEN <<"release">> ELSE <<>>
    ELSE <<>>

\* a call that has not returned yet
NotReturned == [returned |-> FALSE, raised |-> FALSE, value |-> <<>>]

\* a call that returned v
Returned(v) == [returned |-> TRUE, raised |-> FALSE, value |-> v]

\* a call left by an exception
Raised == [returned |-> TRUE, raised |-> TRUE, value |-> <<>>]

\* get_formatted_response of sopel_modules/github/formatting.py, the variant
\* webhook.py imports as github.formatting: the label messages are rendered
\* without looking for payload['label'], and fmt_issue_label_message then
\* fails on payload['label']['name']
get_formatted_response_modules(p, event) ==
    IF event = "push" THEN
        Returned(<<"push_summary">> \o [i \in 1..Len(get_distinct_commits(p)) |-> "commit"])
    ELSE IF event = "commit_comment" THEN Returned(<<"commit_comment_summary">>)
    ELSE IF event = "pull_request" THEN
        IF ReMatch({"opened", "reopened", "closed"}, p.action)
        THEN Returned(<<"pull_request_summary">>)
        ELSE IF ReMatch({"assigned", "unassigned"}, p.action)
        THEN Returned(<<"issue_assignee">>)
        ELSE IF ReMatch({"labeled", "unlabeled"}, p.action) THEN
            IF p.label THEN Returned(<<"issue_label">>) ELSE Raised
        ELSE IF ActionIs("edited", p.action) THEN
            IF "title" \in p.changes THEN Returned(<<"pull_request_title_edit">>)
            ELSE Returned(<<>>)
        ELSE Returned(<<>>)
    ELSE IF event = "pull_request_review" THEN
        IF ActionIs("submitted", p.action)
           /\ p.review_state \in {"approved", "changes_requested", "commented"}
        THEN IF p.review_state = "commented" /\ p.review_body = "none"
             THEN Returned(<<>>)
             ELSE Returned(<<"pull_request_review_summary">>)
        ELSE IF ActionIs("dismissed", p.action)
             THEN Returned(<<"pull_request_review_dismissal">>)
             ELSE Returned(<<>>)
    ELSE IF event = "pull_request_review_comment" /\ ActionIs("created", p.action)
        THEN Returned(<<"pull_request_review_comment_summary">>)
    ELSE IF event = "issues" THEN
        IF ReMatch({"opened", "reopened", "closed"}, p.action)
        THEN Returned(<<"issue_summary">>)
        ELSE IF ReMatch({"assigned", "unassigned"}, p.action)
        THEN Returned(<<"issue_assignee">>)
        ELSE IF ReMatch({"labeled", "unlabeled"}, p.action) THEN
            IF p.label THEN Returned(<<"issue_label">>) ELSE Raised
        ELSE IF ReMatch({"milestoned", "demilestoned"}, p.action)
        THEN Returned(<<"issue_milestone">>)
        ELSE IF ActionIs("edited", p.action) THEN
            IF "title" \in p.changes THEN Returned(<<"issue_title_edit">>)
            ELSE Returned(<<>>)
        ELSE Returned(<<>>)
    ELSE IF event = "issue_comment" /\ ActionIs("created", p.action)
        THEN Returned(<<"issue_comment_summary">>)
    ELSE IF event = "gollum" THEN Returned(<<"gollum_summary">>)
    ELSE IF event = "watch" THEN Returned(<<"watch">>)
    ELSE IF event = "status" THEN Returned(<<"status">>)
    ELSE IF event = "release" THEN
        IF ActionIs("published", p.action) THEN Returned(<<"release">>)
        ELSE Returned(<<>>)
    ELSE Returned(<<>>)

\* get_targets without "AND enabled = 1"
get_targets_any_flag(table, repo) ==
    { [channel |-> c, repo_name |-> Lower(repo)] :
        c \in { ch \in Channels : table[<<ch, Lower(repo)>>] # "absent" } }

\* the lookup without repo.lower(): a full name matches only a row that holds
\* it letter for letter
get_targets_case_sensitive(table, repo) ==
    IF repo \in Repos
    THEN { [channel |-> c, repo_name |-> repo] :
            c \in { ch \in Channels : table[<<ch, repo>>] = "enabled" } }
    ELSE {}

\* the rows SELECT ... WHERE repo_name = lower(repo) AND enabled = 1 returns
get_targets(table, repo) ==
    { [channel |-> c, repo_name |-> Lower(repo)] :
        c \in { ch \in Channels : table[<<ch, Lower(repo)>>] = "enabled" } }

\* the orders in which a result set can come back (the query has no ORDER BY)
Orders(S) ==
    { s \in [1..Cardinality(S) -> S] : { s[i] : i \in 1..Cardinality(S) } = S }

\* [chan[0] for chan in targets]
ChannelList(rows) == [i \in 1..Len(rows) |-> rows[i].channel]

\* the digest names the verifier computes
SupportedDigests == {"sha1"}

\* verify(secret, rawBody, signatureHeader) of the SignatureVerifier contract
verify(key, rawBody, signatureHeader) ==
    IF ~signatureHeader.present THEN "missing_signature"
    ELSE IF signatureHeader.digest \notin SupportedDigests THEN "unsupported_digest"
    ELSE IF signatureHeader.hex # HmacSha1(key, rawBody) THEN "signature_mismatch"
    ELSE "Authenticated"

---------------------------------------------------------------------------
(* State machine *)

NoResponse == [status |-> 0, channels |-> <<>>]

Response(status, channels) == [status |-> status, channels |-> channels]

NotSeen ==
    [parsed |-> FALSE, looked_up |-> FALSE,
     at_lookup |-> [c \in Channels |-> "absent"], store_failed |-> FALSE,
     formatted |-> FALSE, send_failed |-> FALSE]

Request(e, k, p, sg) == [event |-> e, body |-> k, payload |-> p, signature |-> sg]

JsonRequests(e) ==
    UNION { { Request(e, "json", p, sg) : sg \in SignatureInputs("json", p) } :
            p \in PayloadInputs(e) }

Requests ==
    UNION { JsonRequests(e) : e \in EventHeaders }
    \cup
    UNION { { Request(e, k, NoPayload, sg) : e \in {"", "push"},
                                             sg \in SignatureInputs(k, NoPayload) } :
            k \in BodyKinds \ {"json"} }

\* before the first request
NoRequest == Request("", "nojson", NoPayload, NoSignature)

\* the formatting module as imported: current_row = None, current_payload = None,
\* no call in progress
FmtIdle ==
    /\ call = [fn |-> "none"]
    /\ result = NotReturned
    /\ current_row = "None"
    /\ current_payload = "None"
    /\ tasks = <<>>

\* setup_webhook: the table is created empty; the configuration is fixed
Init ==
    /\ FmtIdle
    /\ hooks = [k \in Channels \X Repos |-> "absent"]
    /\ secret \in {"none", "s1"}
    /\ req = NoRequest
    /\ pc = "idle"
    /\ payload = NoPayload
    /\ targets = <<>>
    /\ ti = 1
    /\ messages = <<>>
    /\ sent = <<>>
    /\ resp = NoResponse
    /\ seen = NotSeen

\* .gh-hook <repo> [enable|disable] by a channel operator: insert the row of
\* (channel, repo_name), or update its enabled flag
configure_repo_messages(channel, repo_name, enabled) ==
    /\ hooks' = [hooks EXCEPT ![<<channel, repo_name>>] =
                    IF enabled THEN "enabled" ELSE "disabled"]
    /\ hooks' # hooks
    /\ UNCHANGED <<secret, req, pc, payload, targets, ti, messages, sent, resp, seen>>
    /\ UNCHANGED fmtvars

\* the server takes the next POST /webhook once the previous one is answered
Receive ==
    /\ pc = "idle"
    /\ req' \in Requests
    /\ pc' = "received"
    /\ UNCHANGED <<hooks, secret, payload, targets, ti, messages, sent, resp, seen>>
    /\ UNCHANGED fmtvars

\* event = header or 'ping'
EventOf(r) == IF r.event = "" THEN "ping" ELSE r.event

\* payload = bottle.request.json: raises on text that is not JSON (answered 400),
\* gives None for a body it does not read as JSON (the first payload[...] then
\* raises, answered 500)
Parse ==
    /\ pc = "received"
    /\ IF req.body = "malformed"
         THEN /\ resp' = Response(400, <<>>)
              /\ pc' = "done"
              /\ UNCHANGED payload
         ELSE IF req.body = "nojson"
         THEN /\ resp' = Response(500, <<>>)
              /\ pc' = "done"
              /\ UNCHANGED payload
         ELSE /\ payload' = req.payload
              /\ pc' = "parsed"
              /\ UNCHANGED resp
    /\ seen' = [seen EXCEPT !.parsed = (req.body = "json")]
    /\ UNCHANGED <<hooks, secret, req, targets, ti, messages, sent>>
    /\ UNCHANGED fmtvars

\* targets = get_targets(payload['repository']['full_name'])
Resolve ==
    /\ pc = "parsed"
    /\ \E rows \in Orders(get_targets(hooks, payload.full_name)) :
            targets' = rows
    /\ ti' = 1
    /\ pc' = "loop"
    /\ seen' = [seen EXCEPT !.looked_up = TRUE,
                            !.at_lookup =
                                [c \in Channels |->
                                    hooks[<<c, Lower(payload.full_name)>>]]]
    /\ UNCHANGED <<hooks, secret, req, payload, messages, sent, resp>>
    /\ UNCHANGED fmtvars

\* get_targets swallowing the database error and returning no rows
ResolveFailsSwallowed ==
    /\ pc = "parsed"
    /\ pc' = "loop"
    /\ targets' = <<>>
    /\ ti' = 1
    /\ seen' = [seen EXCEPT !.looked_up = TRUE, !.store_failed = TRUE]
    /\ UNCHANGED <<hooks, secret, req, payload, messages, sent, resp>>
    /\ UNCHANGED fmtvars

\* the database is unavailable: get_targets raises, the request is answered 500
ResolveFails ==
    /\ pc = "parsed"
    /\ pc' = "done"
    /\ resp' = Response(500, <<>>)
    /\ seen' = [seen EXCEPT !.looked_up = TRUE, !.store_failed = TRUE]
    /\ UNCHANGED <<hooks, secret, req, payload, targets, ti, messages, sent>>
    /\ UNCHANGED fmtvars

\* a handler that answers every event it has no lines for with the ping notice
LinesForDefaultNotice(p, event) ==
    IF event = "ping" \/ get_formatted_response(p, event) = <<>>
    THEN <<"ping">>
    ELSE get_formatted_response(p, event)

\* the lines for one row with the ping branch removed: every event goes to
\* get_formatted_response
LinesForClassifierOnly(p, event) == get_formatted_response(p, event)

\* the lines for one row: the ping notice, or get_formatted_response(payload, row)
LinesFor(p, event) ==
    IF event = "ping" THEN <<"ping">> ELSE get_formatted_response(p, event)

\* for row in targets: messages = get_formatted_response(payload, row)
FormatRow ==
    /\ pc = "loop"
    /\ messages = <<>>
    /\ ti <= Len(targets)
    /\ LET lines == LinesFor(payload, EventOf(req)) IN
         IF lines = <<>>
         THEN /\ ti' = ti + 1
              /\ UNCHANGED messages
         ELSE /\ messages' = lines
              /\ UNCHANGED ti
    /\ seen' = [seen EXCEPT !.formatted = TRUE]
    /\ UNCHANGED <<hooks, secret, req, pc, payload, targets, sent, resp>>
    /\ UNCHANGED fmtvars

\* sopel_instance.msg called with the last pending line instead of the next one
SendOkLastFirst ==
    /\ pc = "loop"
    /\ messages # <<>>
    /\ sent' = Append(sent, <<targets[ti].channel, messages[Len(messages)]>>)
    /\ messages' = SubSeq(messages, 1, Len(messages) - 1)
    /\ ti' = IF Len(messages) = 1 THEN ti + 1 ELSE ti
    /\ UNCHANGED <<hooks, secret, req, pc, payload, targets, resp, seen>>
    /\ UNCHANGED fmtvars

\* sopel_instance.msg(row[0], message) returns
SendOk ==
    /\ pc = "loop"
    /\ messages # <<>>
    /\ sent' = Append(sent, <<targets[ti].channel, Head(messages)>>)
    /\ messages' = Tail(messages)
    /\ ti' = IF Tail(messages) = <<>> THEN ti + 1 ELSE ti
    /\ UNCHANGED <<hooks, secret, req, pc, payload, targets, resp, seen>>
    /\ UNCHANGED fmtvars

\* sopel_instance.msg raises: the exception leaves webhook(), answered 500
SendRaises ==
    /\ pc = "loop"
    /\ messages # <<>>
    /\ pc' = "done"
    /\ resp' = Response(500, <<>>)
    /\ seen' = [seen EXCEPT !.send_failed = TRUE]
    /\ UNCHANGED <<hooks, secret, req, payload, targets, ti, messages, sent>>
    /\ UNCHANGED fmtvars

\* sopel_instance.msg does not return
SendBlocks ==
    /\ pc = "loop"
    /\ messages # <<>>
    /\ pc' = "blocked"
    /\ UNCHANGED <<hooks, secret, req, payload, targets, ti, messages, sent, resp, seen>>
    /\ UNCHANGED fmtvars

\* a response that lists only the channels a line was sent to
RespondDelivered ==
    /\ pc = "loop"
    /\ messages = <<>>
    /\ ti > Len(targets)
    /\ resp' = Response(200, SelectSeq(ChannelList(targets),
                            LAMBDA c : \E i \in 1..Len(sent) : sent[i][1] = c))
    /\ pc' = "done"
    /\ UNCHANGED <<hooks, secret, req, payload, targets, ti, messages, sent, seen>>
    /\ UNCHANGED fmtvars

\* return '{"channels":' + json.dumps([chan[0] for chan in targets]) + '}'
Respond ==
    /\ pc = "loop"
    /\ messages = <<>>
    /\ ti > Len(targets)
    /\ resp' = Response(200, ChannelList(targets))
    /\ pc' = "done"
    /\ UNCHANGED <<hooks, secret, req, payload, targets, ti, messages, sent, seen>>
    /\ UNCHANGED fmtvars

\* the response is written and the server goes back to accepting requests
Finish ==
    /\ pc = "done"
    /\ req' = NoRequest
    /\ pc' = "idle"
    /\ payload' = NoPayload
    /\ targets' = <<>>
    /\ ti' = 1
    /\ messages' = <<>>
    /\ sent' = <<>>
    /\ resp' = NoResponse
    /\ seen' = NotSeen
    /\ UNCHANGED <<hooks, secret>>
    /\ UNCHANGED fmtvars

Command ==
    \E c \in Channels, r \in Repos, e \in BOOLEAN : configure_repo_messages(c, r, e)

Next ==
    \/ Command
    \/ Receive
    \/ Parse
    \/ Resolve
    \/ ResolveFails
    \/ FormatRow
    \/ SendOk
    \/ SendRaises
    \/ SendBlocks
    \/ Respond
    \/ Finish

Spec == Init /\ [][Next]_vars

---------------------------------------------------------------------------
(* Properties *)

InProgress == pc # "idle"

Answered == pc = "done"

\* the verdict of the verifier on the request in progress
Verdict == verify(secret, RawBody(req.body, req.payload), req.signature)

AuthenticationFails == InProgress /\ secret # "none" /\ Verdict # "Authenticated"

\* the channels whose subscription to the event's repository was enabled when
\* the lookup was made
EnabledAtLookup == { c \in Channels : seen.at_lookup[c] = "enabled" }

SentChannels == { sent[i][1] : i \in 1..Len(sent) }

Range(seq) == { seq[i] : i \in 1..Len(seq) }

\* C1: a request that fails authentication (a secret is configured and the
\* signature header is missing, names an unsupported digest or does not match
\* the body) is rejected: its payload is never parsed, no subscriber lookup and
\* no formatting happen, and no line is delivered for it.
C1_AuthFailureIsRejected ==
    AuthenticationFails =>
        /\ ~seen.parsed
        /\ ~seen.looked_up
        /\ ~seen.formatted
        /\ sent = <<>>
        /\ resp.status # 200

\* C2: a send that is slow or never returns cannot delay or prevent the
\* acknowledgment: whenever a line is waiting on sopel_instance.msg, the 200
\* response has been given or can be given at once.
C2_AckDoesNotWaitForSend ==
    (pc \in {"loop", "blocked"} /\ messages # <<>>) =>
        (resp.status = 200 \/ ENABLED Respond)

\* a witness of C3: a line was delivered while another channel's subscription
\* to the same repository was disabled
C3_Witness ==
    /\ sent # <<>>
    /\ \E c \in Channels : seen.at_lookup[c] = "disabled"

\* C3: every line delivered for an event goes to a channel that had an enabled
\* subscription for the event's repository when the lookup was made; when no
\* enabled subscription matches, nothing is delivered and the request is
\* acknowledged.
C3_DeliveryOnlyToEnabled ==
    /\ SentChannels \subseteq EnabledAtLookup
    /\ (Answered /\ seen.looked_up /\ ~seen.store_failed
            /\ EnabledAtLookup = {})
        => (sent = <<>> /\ resp.status = 200)

\* a witness of C4: an acknowledgment that lists a channel although the
\* formatter produced no line for it
C4_Witness == resp.status = 200 /\ resp.channels # <<>> /\ sent = <<>>

\* C4: the 200 response lists exactly the channels resolved for the event's
\* repository, each once, whether or not a line was produced for them.
C4_ResponseListsResolved ==
    resp.status = 200 =>
        /\ Range(resp.channels) = EnabledAtLookup
        /\ Len(resp.channels) = Cardinality(EnabledAtLookup)

\* the signature of the request in progress was made with the configured
\* secret over the body of the request
CorrectlySigned == InProgress /\ secret # "none" /\ Verdict = "Authenticated"

\* the signature of the request in progress is a correct sha1 signature with
\* the body or the digest changed
TamperedSignature ==
    /\ InProgress /\ secret # "none"
    /\ req.signature.present /\ req.signature.digest \in SupportedDigests
    /\ req.signature.hex # HmacSha1(secret, RawBody(req.body, req.payload))

\* C5: a request signed with the correct keyed digest of its body is
\* authenticated, and one whose body or signature was changed is rejected as a
\* signature mismatch.
C5_VerifyDecidesBySignature ==
    /\ CorrectlySigned => resp.status \notin {401, 403, 501}
    /\ (TamperedSignature /\ Answered) => resp.status = 403

\* C6: with a secret configured, a missing signature header is answered 401,
\* an unsupported digest name 501 and a digest mismatch 403.
C6_AuthFailureStatus ==
    (Answered /\ secret # "none") =>
        /\ Verdict = "missing_signature" => resp.status = 401
        /\ Verdict = "unsupported_digest" => resp.status = 501
        /\ Verdict = "signature_mismatch" => resp.status = 403

\* the body of the request in progress cannot be decoded into a payload
Undecodable == InProgress /\ req.body # "json"

\* C7: a request whose body cannot be decoded into a structured payload is
\* answered 400 and causes no subscriber lookup, no formatting and no delivery.
C7_MalformedBodyIs400 ==
    Undecodable =>
        /\ ~seen.looked_up /\ ~seen.formatted /\ sent = <<>>
        /\ Answered => resp.status = 400

\* the event kinds get_formatted_response and the ping branch know
KnownKinds ==
    {"ping", "push", "commit_comment", "pull_request", "pull_request_review",
     "pull_request_review_comment", "issues", "issue_comment", "gollum", "watch",
     "status", "release"}

UnknownKind == InProgress /\ req.body = "json" /\ EventOf(req) \notin KnownKinds

\* a witness of C8: a request of an unknown kind acknowledged with a channel
C8_Witness == UnknownKind /\ resp.status = 200 /\ resp.channels # <<>>

\* C8: a request whose event-type header names an unknown kind delivers no
\* line, and once the subscribers are resolved it is answered 200 with the
\* resolved channel list.
C8_UnknownKindAcknowledged ==
    UnknownKind =>
        /\ sent = <<>>
        /\ (Answered /\ ~seen.store_failed) =>
               /\ resp.status = 200
               /\ Range(resp.channels) = EnabledAtLookup

\* C9: a send that raises is not surfaced to the webhook sender: the response
\* of the request is still the 200 acknowledgment.
C9_SendFailureNotSurfaced ==
    (Answered /\ seen.send_failed) => resp.status = 200

\* a witness of C10: the lookup of a request with subscribers failed
C10_Witness ==
    /\ seen.store_failed
    /\ Answered
    /\ \E c \in Channels : hooks[<<c, Lower(payload.full_name)>>] = "enabled"
    /\ resp.status = 500

\* C10: when the subscriber lookup fails the request fails: it is answered
\* with a server error, never 200, and no line is delivered for it.
C10_StoreFailureFailsRequest ==
    seen.store_failed =>
        /\ resp.status # 200
        /\ sent = <<>>
        /\ Answered => resp.status = 500

\* the lines handed to sopel_instance.msg for one channel, in the order of the calls
RECURSIVE SentTo(_, _)
SentTo(c, s) ==
    IF s = <<>> THEN <<>>
    ELSE IF Head(s)[1] = c THEN <<Head(s)[2]>> \o SentTo(c, Tail(s))
    ELSE SentTo(c, Tail(s))

IsPrefix(s, t) == Len(s) <= Len(t) /\ SubSeq(t, 1, Len(s)) = s

\* a channel received, for a request answered 200, two lines of one formatter call
C11_Witness ==
    /\ Answered
    /\ resp.status = 200
    /\ \E c \in Channels : Len(SentTo(c, sent)) >= 2

\* C11: the lines one formatter call produced for one channel are handed to
\* sopel_instance.msg in the order produced, none duplicated, none skipped:
\* what a channel has received is always a prefix of the formatter's lines,
\* and all of them once the request is answered 200.
C11_LinesInProducedOrder ==
    seen.parsed =>
        /\ \A c \in Channels :
             IsPrefix(SentTo(c, sent), LinesFor(payload, EventOf(req)))
        /\ (Answered /\ resp.status = 200) =>
             \A i \in 1..Len(targets) :
               SentTo(targets[i].channel, sent) = LinesFor(payload, EventOf(req))

-----------------------------------------------------------------------------
\* The formatting module under calls that overlap.  get_formatted_response
\* stores its arguments in the module globals current_payload and current_row
\* and the helpers it then calls without arguments read those globals.

\* no request in the handler: the webhook state as after setup
HookIdle ==
    /\ hooks = [k \in Channels \X Repos |-> "absent"]
    /\ secret = "none"
    /\ req = NoRequest
    /\ pc = "idle"
    /\ payload = NoPayload
    /\ targets = <<>>
    /\ ti = 1
    /\ messages = <<>>
    /\ sent = <<>>
    /\ resp = NoResponse
    /\ seen = NotSeen

\* mIRC colour codes a row can hold
Colors == {"02", "13"}

\* a gh_hooks row as the helpers read it: row[0], row[3] (url), row[5] (repo)
Rows == [channel : Channels, url_color : Colors, repo_color : Colors]

\* push payloads of two repositories, no commits: one summary line each
ParPayloads == { Payload(fn, NoAction, FALSE, <<>>) : fn \in {"o/r", "o/s"} }

\* the requests in flight at once
Tasks == {1, 2}

NoLine == [full_name |-> "unset", repo_color |-> "unset", url_color |-> "unset"]

ParInit ==
    /\ HookIdle
    /\ call = [fn |-> "none"]
    /\ result = NotReturned
    /\ current_row = "None"
    /\ current_payload = "None"
    /\ tasks \in [Tasks -> [payload : ParPayloads, row : Rows,
                            at : {"called"}, line : {NoLine}]]

\* current_payload = payload; current_row = row
SetCurrent(t) ==
    /\ tasks[t].at = "called"
    /\ current_payload' = tasks[t].payload
    /\ current_row' = tasks[t].row
    /\ tasks' = [tasks EXCEPT ![t].at = "dispatch"]
    /\ UNCHANGED hookvars
    /\ UNCHANGED <<call, result>>

\* fmt_push_summary_message(): payload = current_payload, fmt_repo reads current_row[5]
FmtSummary(t) ==
    /\ tasks[t].at = "dispatch"
    /\ tasks' = [tasks EXCEPT ![t].at = "summary",
                              ![t].line.full_name = current_payload.full_name,
                              ![t].line.repo_color = current_row.repo_color]
    /\ UNCHANGED <<current_payload, current_row, call, result>>
    /\ UNCHANGED hookvars

\* fmt_url(get_push_summary_url()): row = current_row, colour row[3]; the line
\* is appended to messages and returned
FmtUrl(t) ==
    /\ tasks[t].at = "summary"
    /\ tasks' = [tasks EXCEPT ![t].at = "returned",
                              ![t].line.url_color = current_row.url_color]
    /\ UNCHANGED <<current_payload, current_row, call, result>>
    /\ UNCHANGED hookvars

ParNext ==
    \E t \in Tasks :
        \/ SetCurrent(t)
        \/ FmtSummary(t)
        \/ FmtUrl(t)

ParSpec == ParInit /\ [][ParNext]_vars

-----------------------------------------------------------------------------
\* get_formatted_response as a function of the event kind and the payload,
\* in the two formatting modules of the repository.

FormattingModules == {"sopel_github", "sopel_modules.github"}

ClassifyEvents == {"issues", "pull_request", "pull_request_review"}

ClassifyActions == {"labeled", "unlabeled", "opened", "submitted"}

\* payload['review']['state']
ReviewStates == {"commented", "approved"}

\* payload['review']['body']: "none" is null, "" the empty string
ReviewBodies == {"none", "", "text"}

ClassifyPayloads ==
    { [Payload("o/r", Action(a), l, <<>>) EXCEPT !.review_state = s, !.review_body = b] :
        a \in ClassifyActions, l \in BOOLEAN, s \in ReviewStates, b \in ReviewBodies }

ClassifyInit ==
    /\ HookIdle
    /\ current_row = "None"
    /\ current_payload = "None"
    /\ tasks = <<>>
    /\ result = NotReturned
    /\ call \in [fn : {"get_formatted_response"}, module : FormattingModules,
                 event : ClassifyEvents, payload : ClassifyPayloads]

\* sopel_github.formatting.get_formatted_response(payload, row) returns
Classify ==
    /\ call.fn = "get_formatted_response"
    /\ call.module = "sopel_github"
    /\ ~result.returned
    /\ result' = Returned(get_formatted_response(call.payload, call.event))
    /\ UNCHANGED <<call, current_row, current_payload, tasks>>
    /\ UNCHANGED hookvars

\* sopel_modules.github.formatting.get_formatted_response(payload, row)
\* returns or raises
ClassifyModules ==
    /\ call.fn = "get_formatted_response"
    /\ call.module = "sopel_modules.github"
    /\ ~result.returned
    /\ result' = get_formatted_response_modules(call.payload, call.event)
    /\ UNCHANGED <<call, current_row, current_payload, tasks>>
    /\ UNCHANGED hookvars

ClassifyNext == Classify \/ ClassifyModules

ClassifySpec == ClassifyInit /\ [][ClassifyNext]_vars

NoOp == Returned(<<>>)

LabelEventWithoutLabel ==
    /\ call.fn = "get_formatted_response"
    /\ call.event \in {"issues", "pull_request"}
    /\ ReMatch({"labeled", "unlabeled"}, call.payload.action)
    /\ ~call.payload.label

\* C13: an issues or pull_request event with action labeled or unlabeled and
\* no label object is classified NoOp: the formatter returns zero lines.
C13_LabelWithoutObjectIsNoOp ==
    (LabelEventWithoutLabel /\ result.returned) => result = NoOp

EmptyCommentedReview ==
    /\ call.fn = "get_formatted_response"
    /\ call.event = "pull_request_review"
    /\ ActionIs("submitted", call.payload.action)
    /\ call.payload.review_state = "commented"
    /\ call.payload.review_body \in {"none", ""}

\* C14: a submitted pull_request_review in state commented is classified NoOp
\* whenever the review body is absent (null) or the empty string.
C14_EmptyCommentedReviewIsNoOp ==
    (EmptyCommentedReview /\ result.returned) => result = NoOp

-----------------------------------------------------------------------------
\* fmt_push_summary_message as a function of the push payload.

\* longest commit list of a push payload given to fmt_push_summary_message
MaxPushCommits == 2

PushCommits == [distinct : BOOLEAN, blank : BOOLEAN]

PushCommitLists == UNION { [1..n -> PushCommits] : n \in 0..MaxPushCommits }

\* the fields of a push payload the summary reads: the created, deleted and
\* forced flags, whether before / after match 0{40}, whether ref starts with
\* refs/tags/, whether base_ref is set, and the commits
PushPayloads ==
    [created : BOOLEAN, deleted : BOOLEAN, forced : BOOLEAN,
     before_zero : BOOLEAN, after_zero : BOOLEAN, ref_tag : BOOLEAN,
     base_ref : BOOLEAN, commits : PushCommitLists]

\* one element of the message list: a format string and what fills it
Phrase(fmt, args) == [fmt |-> fmt, args |-> args, num |-> 0, s |-> ""]

\* an element with a commit count: ...format(num, 's' if num > 1 else '', ...)
CountPhrase(fmt, num, args) ==
    [fmt |-> fmt, args |-> args, num |-> num, s |-> IF num > 1 THEN "s" ELSE ""]

fmt_push_summary_message(p) ==
    <<Phrase("[{}] {}", <<"repo(name)", "name(pusher)">>)>> \o
    IF p.created \/ p.before_zero THEN
        IF p.ref_tag THEN
            <<Phrase("tagged {} at", <<"tag(ref)">>),
              IF p.base_ref THEN Phrase("{}", <<"branch(base_ref)">>)
                            ELSE Phrase("{}", <<"hash(after[0:7])">>)>>
        ELSE
            <<Phrase("created {}", <<"branch(ref)">>)>> \o
            (IF p.base_ref THEN <<Phrase("from {}", <<"branch(base_ref)">>)>>
             ELSE IF Len(get_distinct_commits(p)) = 0
                  THEN <<Phrase("at {}", <<"hash(after[0:7])">>)>>
                  ELSE <<>>) \o
            <<CountPhrase("(+{} new commit{})", Len(get_distinct_commits(p)), <<>>)>>
    ELSE IF p.deleted \/ p.after_zero THEN
        <<Phrase("deleted {} at {}", <<"branch(ref)", "hash(before[0:7])">>)>>
    ELSE IF p.forced THEN
        <<Phrase("force-pushed {} from {} to {}",
                 <<"branch(ref)", "hash(before[0:7])", "hash(after[0:7])">>)>>
    ELSE IF Len(p.commits) > 0 /\ Len(get_distinct_commits(p)) = 0 THEN
        IF p.base_ref
        THEN <<Phrase("merged {} into {}", <<"branch(base_ref)", "branch(ref)">>)>>
        ELSE <<Phrase("fast-forwarded {} from {} to {}",
                      <<"branch(ref)", "hash(before[0:7])", "hash(after[0:7])">>)>>
    ELSE
        <<CountPhrase("pushed {} new commit{} to {}",
                      Len(get_distinct_commits(p)), <<"branch(ref)">>)>>

PushInit ==
    /\ HookIdle
    /\ current_row = "None"
    /\ current_payload = "None"
    /\ tasks = <<>>
    /\ result = NotReturned
    /\ call \in [fn : {"fmt_push_summary_message"}, payload : PushPayloads]

\* the summary with the forced test ahead of the created and deleted tests
PushSummaryForcedFirst ==
    /\ call.fn = "fmt_push_summary_message"
    /\ ~result.returned
    /\ result' = Returned(
          IF call.payload.forced
          THEN <<Phrase("[{}] {}", <<"repo(name)", "name(pusher)">>),
                 Phrase("force-pushed {} from {} to {}",
                        <<"branch(ref)", "hash(before[0:7])", "hash(after[0:7])">>)>>
          ELSE fmt_push_summary_message(call.payload))
    /\ UNCHANGED <<call, current_row, current_payload, tasks>>
    /\ UNCHANGED hookvars

\* fmt_push_summary_message(payload, row) returns ' '.join(message)
PushSummary ==
    /\ call.fn = "fmt_push_summary_message"
    /\ ~result.returned
    /\ result' = Returned(fmt_push_summary_message(call.payload))
    /\ UNCHANGED <<call, current_row, current_payload, tasks>>
    /\ UNCHANGED hookvars

PushNext == PushSummary

PushSpec == PushInit /\ [][PushNext]_vars

PushReturned == call.fn = "fmt_push_summary_message" /\ result.returned

\* the format strings that carry a commit count
CountFormats == {"(+{} new commit{})", "pushed {} new commit{} to {}"}

\* C15: in every push summary the commit count N is followed by "commit"
\* exactly when N = 1 and by "commits" for every other N, 0 included.
C15_SingularOnlyForOne ==
    PushReturned =>
        \A i \in 1..Len(result.value) :
            result.value[i].fmt \in CountFormats =>
                (result.value[i].s = "" <=> result.value[i].num = 1)

\* the case of a push by the priority order: creation, deletion, forced,
\* commits present but none distinct, default
PushCase(p) ==
    IF p.created \/ p.before_zero THEN "creation"
    ELSE IF p.deleted \/ p.after_zero THEN "deletion"
    ELSE IF p.forced THEN "forced"
    ELSE IF Len(p.commits) > 0 /\ Len(get_distinct_commits(p)) = 0 THEN "none distinct"
    ELSE "default"

\* the format strings each case renders after the "[repo] pusher" element
CaseFormats(c) ==
    IF c = "creation" THEN {"tagged {} at", "created {}"}
    ELSE IF c = "deletion" THEN {"deleted {} at {}"}
    ELSE IF c = "forced" THEN {"force-pushed {} from {} to {}"}
    ELSE IF c = "none distinct"
    THEN {"merged {} into {}", "fast-forwarded {} from {} to {}"}
    ELSE {"pushed {} new commit{} to {}"}

PushCases == {"creation", "deletion", "forced", "none distinct", "default"}

\* a forced push that neither creates nor deletes the ref was summarised
C16_Witness ==
    /\ PushReturned
    /\ call.payload.forced
    /\ PushCase(call.payload) = "forced"
    /\ Len(call.payload.commits) > 0
    /\ Len(get_distinct_commits(call.payload)) = 0

\* C16: the push summary renders exactly one of the five cases, chosen in the
\* order creation, deletion, forced, commits present but none distinct,
\* default; a forced push that neither creates nor deletes renders
\* "force-pushed <branch> from <before[0:7]> to <after[0:7]>".
C16_PushCaseByPriority ==
    PushReturned =>
        /\ result.value[2].fmt \in CaseFormats(PushCase(call.payload))
        /\ \A c \in PushCases \ {PushCase(call.payload)} :
             \A i \in 1..Len(result.value) : result.value[i].fmt \notin CaseFormats(c)
        /\ PushCase(call.payload) = "forced" =>
             result.value = <<Phrase("[{}] {}", <<"repo(name)", "name(pusher)">>),
                              Phrase("force-pushed {} from {} to {}",
                                     <<"branch(ref)", "hash(before[0:7])",
                                       "hash(after[0:7])">>)>>

-----------------------------------------------------------------------------
\* fmt_short_comment_body as a function of the comment body.  A line of text is
\* a sequence of runs: a run is n characters of one class.  The classes are
\* "sp" (space), "tab", "gt" ('>'), "hash" ('#'), "cmt" (the characters of
\* '<!-', n = 3 for all of it), "w" (a letter outside a-f), "hex" (a character
\* of [a-f0-9]); adjacent runs of a line are of different classes.  A body is
\* None or its segments between '\n' characters.

Atom(c, n) == [c |-> c, n |-> n]

\* textwrap.wrap(line, 250)
WrapWidth == 250

\* [a-f0-9]{40}
HashLen == 40

\* m.group(0)[:7]
ShortHashLen == 7

\* TextWrapper.tabsize
TabSize == 8

None == [none |-> TRUE, segs |-> <<<<>>>>]

Body(segs) == [none |-> FALSE, segs |-> segs]

RECURSIVE Size(_)
\* len(line)
Size(line) == IF line = <<>> THEN 0 ELSE Head(line).n + Size(Tail(line))

IsSpace(a) == a.c \in {"sp", "tab"}

\* line.strip() == ''
Blank(line) == \A i \in 1..Len(line) : IsSpace(line[i])

RECURSIVE lstrip(_)
lstrip(line) ==
    IF line = <<>> THEN <<>>
    ELSE IF IsSpace(Head(line)) THEN lstrip(Tail(line)) ELSE line

RECURSIVE rstrip(_)
rstrip(line) ==
    IF line = <<>> THEN <<>>
    ELSE IF IsSpace(line[Len(line)]) THEN rstrip(SubSeq(line, 1, Len(line) - 1))
    ELSE line

\* line.strip()
strip(line) == rstrip(lstrip(line))

\* body.splitlines(): the segments, without a last empty one
splitlines(segs) ==
    IF segs[Len(segs)] = <<>> THEN SubSeq(segs, 1, Len(segs) - 1) ELSE segs

\* MARKDOWN_HEADING.match(line): '#+\s+' at the start of the line
MarkdownHeading(line) ==
    Len(line) >= 2 /\ line[1].c = "hash" /\ IsSpace(line[2])

\* the filter of the list comprehension, on the line as split
Survives(line) ==
    /\ line # <<>>
    /\ line[1].c # "gt"
    /\ ~MarkdownHeading(line)
    /\ ~(line[1].c = "cmt" /\ line[1].n = 3)

\* re.sub(r'[a-f0-9]{40}', lambda m: m.group(0)[:7], line)
AbbreviateHashes(line) ==
    [i \in 1..Len(line) |->
        IF line[i].c = "hex"
        THEN Atom("hex", (ShortHashLen * (line[i].n \div HashLen)) + (line[i].n % HashLen))
        ELSE line[i]]

RECURSIVE ExpandTabs(_, _)
\* text.expandtabs(8) and whitespace translated to spaces, from column col
ExpandTabs(line, col) ==
    IF line = <<>> THEN <<>>
    ELSE LET a == Head(line)
             n == IF a.c = "tab"
                  THEN (TabSize - (col % TabSize)) + (TabSize * (a.n - 1))
                  ELSE a.n
         IN <<Atom(IF a.c = "tab" THEN "sp" ELSE a.c, n)>>
            \o ExpandTabs(Tail(line), col + n)

RECURSIVE Merge(_)
\* adjacent runs of one class are one run
Merge(line) ==
    IF Len(line) < 2 THEN line
    ELSE IF line[1].c = line[2].c
    THEN Merge(<<Atom(line[1].c, line[1].n + line[2].n)>> \o SubSeq(line, 3, Len(line)))
    ELSE <<line[1]>> \o Merge(Tail(line))

RECURSIVE ChunkLen(_)
\* how many leading runs make the first chunk: whitespace, or a word
ChunkLen(line) ==
    IF Len(line) < 2 \/ IsSpace(line[1]) # IsSpace(line[2]) THEN 1
    ELSE 1 + ChunkLen(Tail(line))

RECURSIVE Chunks(_)
\* TextWrapper._split: alternating words and whitespace
Chunks(line) ==
    IF line = <<>> THEN <<>>
    ELSE LET k == ChunkLen(line)
         IN <<SubSeq(line, 1, k)>> \o Chunks(SubSeq(line, k + 1, Len(line)))

RECURSIVE Take(_, _)
\* chunk[:k]
Take(line, k) ==
    IF line = <<>> \/ k <= 0 THEN <<>>
    ELSE IF Head(line).n <= k THEN <<Head(line)>> \o Take(Tail(line), k - Head(line).n)
    ELSE <<Atom(Head(line).c, k)>>

RECURSIVE HyphenEnd(_, _, _)
\* chunk.rfind('-', 0, limit) + 1 for a chunk that starts at offset off: the
\* end of the last whole '<!-' within the limit, 0 when there is none
HyphenEnd(chunk, off, limit) ==
    IF chunk = <<>> \/ off + Head(chunk).n > limit THEN 0
    ELSE LET rest == HyphenEnd(Tail(chunk), off + Head(chunk).n, limit)
         IN IF rest > 0 THEN rest
            ELSE IF Head(chunk).c = "cmt" /\ Head(chunk).n = 3
            THEN off + 3
            ELSE 0

\* TextWrapper._handle_long_word: the chunk is cut at the space left, or
\* after its last hyphen before that (break_on_hyphens)
BreakLongWord(chunk, space_left) ==
    IF HyphenEnd(chunk, 0, space_left) > 0
    THEN Take(chunk, HyphenEnd(chunk, 0, space_left))
    ELSE Take(chunk, space_left)

RECURSIVE Fill(_, _, _)
\* TextWrapper._wrap_chunks, first line: chunks are taken while they fit in
\* the width; a chunk longer than the width is broken (break_long_words)
Fill(chunks, cur, len) ==
    IF chunks = <<>> THEN cur
    ELSE IF len + Size(Head(chunks)) <= WrapWidth
    THEN Fill(Tail(chunks), Append(cur, Head(chunks)), len + Size(Head(chunks)))
    ELSE IF Size(Head(chunks)) > WrapWidth
    THEN Append(cur, BreakLongWord(Head(chunks), WrapWidth - len))
    ELSE cur

\* drop_whitespace: a last chunk that is whitespace (or empty) is dropped
DropTrailing(cur) ==
    IF cur # <<>> /\ Blank(cur[Len(cur)]) THEN SubSeq(cur, 1, Len(cur) - 1) ELSE cur

RECURSIVE Join(_)
Join(chunks) == IF chunks = <<>> THEN <<>> ELSE Head(chunks) \o Join(Tail(chunks))

\* textwrap.wrap(line, 250): the first line of the list, <<>> when the list
\* is empty
wrap(line) == Join(DropTrailing(Fill(Chunks(Merge(ExpandTabs(line, 0))), <<>>, 0)))

EmptyComment == <<Atom("(empty comment)", 15)>>

NoBodyText == <<Atom("(no body text)", 14)>>

\* the marker appended to a shortened body: a space and the three characters
\* of a bracketed ellipsis
Ellipsis == <<Atom("sp", 1), Atom("[...]", 3)>>

fmt_short_comment_body(body) ==
    IF body.none \/ \A i \in 1..Len(body.segs) : Blank(body.segs[i])
    THEN Returned(EmptyComment)
    ELSE LET kept == SelectSeq(splitlines(body.segs), Survives)
             lines == [i \in 1..Len(kept) |-> strip(kept[i])]
         IN IF lines = <<>> THEN Returned(NoBodyText)
            ELSE LET line == AbbreviateHashes(lines[1])
                     short == wrap(line)
                 IN IF line = <<>> THEN Raised
                    ELSE IF Len(lines) > 1 \/ short # line
                    THEN Returned(Merge(short \o Ellipsis))
                    ELSE Returned(short)

\* most runs in the main line of a body
MaxAtoms == 3

CommentAtoms ==
    {Atom("sp", 1), Atom("tab", 1), Atom("gt", 1), Atom("hash", 1), Atom("cmt", 3),
     Atom("w", 1), Atom("w", 249), Atom("w", 300), Atom("hex", 40)}

\* the lines of at most MaxAtoms runs
MainLines ==
    UNION { { l \in [1..n -> CommentAtoms] : \A i \in 1..(n - 1) : l[i].c # l[i + 1].c } :
            n \in 0..MaxAtoms }

\* the lines before and after the main line: empty, blank, quoted, a letter
MinorLines == {<<>>, <<Atom("sp", 1)>>, <<Atom("gt", 1)>>, <<Atom("w", 1)>>}

Around == {<<>>} \cup { <<m>> : m \in MinorLines }

CommentBodies ==
    {None} \cup { Body(pre \o <<main>> \o post) :
                    pre \in Around, main \in MainLines, post \in Around }

CommentInit ==
    /\ HookIdle
    /\ current_row = "None"
    /\ current_payload = "None"
    /\ tasks = <<>>
    /\ result = NotReturned
    /\ call \in [fn : {"fmt_short_comment_body"}, body : CommentBodies]

\* fmt_short_comment_body(body) returns or raises
ShortCommentBody ==
    /\ call.fn = "fmt_short_comment_body"
    /\ ~result.returned
    /\ result' = fmt_short_comment_body(call.body)
    /\ UNCHANGED <<call, current_row, current_payload, tasks>>
    /\ UNCHANGED hookvars

CommentNext == ShortCommentBody

CommentSpec == CommentInit /\ [][CommentNext]_vars

ShortReturned == call.fn = "fmt_short_comment_body" /\ result.returned

\* C17: fmt_short_comment_body is total: for every body, absent, empty,
\* whitespace-only or multi-line, it returns a non-empty string and does not
\* raise.
C17_TotalAndNonEmpty ==
    ShortReturned => (~result.raised /\ Size(result.value) > 0)

\* body.strip() == '' for a body that is not None
BlankBody(body) == ~body.none /\ \A i \in 1..Len(body.segs) : Blank(body.segs[i])

\* C18: an empty or whitespace-only body is shortened to "(no body text)" and
\* an absent body to "(empty comment)".
C18_Placeholders ==
    ShortReturned =>
        /\ call.body.none => result = Returned(EmptyComment)
        /\ BlankBody(call.body) => result = Returned(NoBodyText)

\* the result ends with the ellipsis marker
HasEllipsis(v) == Len(v) >= 2 /\ v[Len(v)] = Atom("[...]", 3) /\ v[Len(v) - 1].c = "sp"

\* the result without the marker
TextPart(v) == IF HasEllipsis(v) THEN Take(v, Size(v) - 4) ELSE v

\* the lines of the body that survive the filter, stripped
SurvivingLines(body) ==
    LET kept == SelectSeq(splitlines(body.segs), Survives)
    IN [i \in 1..Len(kept) |-> strip(kept[i])]

\* content was cut: more than one line survived, or the first surviving line
\* (with its hashes abbreviated) is longer than the wrap width
ContentCut(body) ==
    \/ Len(SurvivingLines(body)) > 1
    \/ Size(AbbreviateHashes(SurvivingLines(body)[1])) > WrapWidth

\* C19: the text part of the shortened result is at most 250 characters and
\* the ellipsis marker is appended if and only if content was cut: more than
\* one line survived the filter, or the first surviving line was longer than
\* 250 characters and was wrapped.
C19_EllipsisIffCut ==
    (ShortReturned /\ ~result.raised /\ result.value \notin {EmptyComment, NoBodyText}) =>
        /\ Size(TextPart(result.value)) <= WrapWidth
        /\ HasEllipsis(result.value) <=> ContentCut(call.body)

\* a non-empty single-line body under 250 characters that does not start
\* with a quote marker
ShortSingleLineUnquoted(body) ==
    /\ ~body.none
    /\ Len(body.segs) = 1
    /\ body.segs[1] # <<>>
    /\ Size(body.segs[1]) < WrapWidth
    /\ body.segs[1][1].c # "gt"

\* C20: a non-empty single-line body under 250 characters that does not start
\* with a quote marker is returned unchanged, without ellipsis, and shortening
\* the result again returns the same.
C20_IdempotentOnShortInput ==
    (ShortReturned /\ ShortSingleLineUnquoted(call.body)) =>
        /\ result = Returned(call.body.segs[1])
        /\ fmt_short_comment_body(Body(<<result.value>>)) = result

-----------------------------------------------------------------------------
\* fmt_pull_request_summary_message as a function of the payload, in the two
\* formatting modules.

Logins == {"alice", "bob"}

PullRequestActions ==
    {"opened", "reopened", "closed", "ready_for_review", "converted_to_draft"}

\* the fields the summary reads: payload['action'], pull_request.merged,
\* pull_request.draft, sender.login and pull_request.user.login
PullRequestPayloads ==
    [action : PullRequestActions, merged : BOOLEAN, draft : BOOLEAN,
     sender : Logins, user : Logins]

\* the values filled into '[{}] {} {} {}pull request #{}: {} ({}...{})':
\* the actor, the action as displayed and the possessive part ("" or the
\* author's name followed by 's)
PullRequestSummary(actor, action, possessive) ==
    [actor |-> actor, action |-> action, possessive |-> possessive]

\* sopel_github.formatting.fmt_pull_request_summary_message
fmt_pull_request_summary_message(p) ==
    LET action == IF p.action = "closed" /\ p.merged THEN "merged"
                  ELSE IF p.action = "opened" /\ p.draft THEN "drafted"
                  ELSE IF p.action = "ready_for_review" THEN "readied"
                  ELSE IF p.action = "converted_to_draft" THEN "un-readied"
                  ELSE p.action
        maybe_possessive == IF action = "merged" /\ p.sender # p.user
                            THEN p.user ELSE ""
    IN PullRequestSummary(p.sender, action, maybe_possessive)

\* sopel_modules.github.formatting.fmt_pull_request_summary_message: no
\* converted_to_draft case and no possessive part in the format string
fmt_pull_request_summary_message_modules(p) ==
    LET action == IF p.action = "closed" /\ p.merged THEN "merged"
                  ELSE IF p.action = "opened" /\ p.draft THEN "drafted"
                  ELSE IF p.action = "ready_for_review" THEN "readied"
                  ELSE p.action
    IN PullRequestSummary(p.sender, action, "")

PullRequestInit ==
    /\ HookIdle
    /\ current_row = "None"
    /\ current_payload = "None"
    /\ tasks = <<>>
    /\ result = NotReturned
    /\ call \in [fn : {"fmt_pull_request_summary_message"},
                 module : FormattingModules, payload : PullRequestPayloads]

PullRequestSummaryMessage ==
    /\ call.fn = "fmt_pull_request_summary_message"
    /\ call.module = "sopel_github"
    /\ ~result.returned
    /\ result' = Returned(fmt_pull_request_summary_message(call.payload))
    /\ UNCHANGED <<call, current_row, current_payload, tasks>>
    /\ UNCHANGED hookvars

PullRequestSummaryMessageModules ==
    /\ call.fn = "fmt_pull_request_summary_message"
    /\ call.module = "sopel_modules.github"
    /\ ~result.returned
    /\ result' = Returned(fmt_pull_request_summary_message_modules(call.payload))
    /\ UNCHANGED <<call, current_row, current_payload, tasks>>
    /\ UNCHANGED hookvars

PullRequestNext == PullRequestSummaryMessage \/ PullRequestSummaryMessageModules

PullRequestSpec == PullRequestInit /\ [][PullRequestNext]_vars

\* the action as the summary is to display it
DisplayedAction(p) ==
    IF p.action = "closed" /\ p.merged THEN "merged"
    ELSE IF p.action = "opened" /\ p.draft THEN "drafted"
    ELSE IF p.action = "ready_for_review" THEN "readied"
    ELSE IF p.action = "converted_to_draft" THEN "un-readied"
    ELSE p.action

\* C21: the pull-request summary displays closed with merged as "merged",
\* opened with draft as "drafted", ready_for_review as "readied",
\* converted_to_draft as "un-readied" and every other action as is; the
\* author's name is rendered possessively exactly when the displayed action is
\* "merged" and the actor is not the author.
C21_ActionRemapAndPossessive ==
    (call.fn = "fmt_pull_request_summary_message" /\ result.returned) =>
        /\ result.value.action = DisplayedAction(call.payload)
        /\ result.value.possessive # "" <=>
             (result.value.action = "merged" /\ call.payload.sender # call.payload.user)
        /\ result.value.possessive # "" => result.value.possessive = call.payload.user

-----------------------------------------------------------------------------
\* get_formatted_response of sopel_github over every event kind, with actions
\* that are a listed name or a listed name followed by more characters.

DispatchEvents ==
    {"push", "commit_comment", "pull_request", "pull_request_review",
     "pull_request_review_comment", "issues", "issue_comment", "gollum",
     "watch", "status", "release", "fork"}

ActionNames ==
    {"opened", "reopened", "closed", "ready_for_review", "converted_to_draft",
     "edited", "assigned", "unassigned", "labeled", "unlabeled", "submitted",
     "dismissed", "created", "milestoned", "demilestoned", "transferred",
     "published", "deleted"}

\* payload['action']: a name, or a name with a tail after it
DispatchActions == [name : ActionNames, tail : {"", "_x"}]

\* the keys of payload['changes']
ChangeSets == {{}, {"title"}, {"old_repository", "old_issue"}}

DispatchPayloads ==
    { [Payload("o/r", a, l, <<>>) EXCEPT !.changes = ch, !.review_state = s,
                                         !.review_body = b] :
        a \in DispatchActions, l \in BOOLEAN, ch \in ChangeSets,
        s \in {"approved", "commented", "pending"}, b \in {"none", "text"} }

DispatchInit ==
    /\ HookIdle
    /\ current_row = "None"
    /\ current_payload = "None"
    /\ tasks = <<>>
    /\ result = NotReturned
    /\ call \in [fn : {"get_formatted_response"}, module : {"sopel_github"},
                 event : DispatchEvents, payload : DispatchPayloads]

DispatchNext == Classify

DispatchSpec == DispatchInit /\ [][DispatchNext]_vars

\* what a line starts with: the text between the brackets and the value that
\* follows them, each named by the colour helper applied and the payload
\* field given to it
LineHead(bracket, after) == [bracket |-> bracket, after |-> after]

\* the head of the line each formatter returns, from its format string
FirstLineHead(line) ==
    IF line = "push_summary"
    THEN LineHead("fmt_repo(repository.name)", "fmt_name(pusher.name)")
    ELSE IF line = "status"
    THEN LineHead("fmt_repo(repository.name)/fmt_branch(branch)", "description")
    ELSE IF line = "issue_incoming_transfer"
    THEN LineHead("fmt_repo(repository.name)",
                  "fmt_repo(changes.old_repository.full_name)")
    ELSE IF line = "release"
    THEN LineHead("fmt_repo(repository.name)", "fmt_name(release.author.login)")
    ELSE LineHead("fmt_repo(repository.name)", "fmt_name(sender.login)")

Dispatched == call.fn = "get_formatted_response" /\ result.returned /\ ~result.raised

\* C22: for every event kind and action that produces output, the first line
\* starts with the repository name in brackets followed by the name of the
\* event's sender, both coloured by the row's colours.
C22_FirstLineRepoAndSender ==
    (Dispatched /\ result.value # <<>>) =>
        FirstLineHead(result.value[1])
            = LineHead("fmt_repo(repository.name)", "fmt_name(sender.login)")

\* the actions the decision table lists for a kind, "any" when every action is
ListedActions(event) ==
    IF event = "pull_request"
    THEN {"opened", "reopened", "closed", "ready_for_review", "converted_to_draft",
          "edited", "assigned", "unassigned", "labeled", "unlabeled"}
    ELSE IF event = "pull_request_review" THEN {"submitted", "dismissed"}
    ELSE IF event \in {"pull_request_review_comment", "issue_comment"} THEN {"created"}
    ELSE IF event = "issues"
    THEN {"opened", "reopened", "closed", "assigned", "unassigned", "labeled",
          "unlabeled", "milestoned", "demilestoned", "edited", "transferred"}
    ELSE IF event = "release" THEN {"published"}
    ELSE {}

AnyActionKinds == {"push", "commit_comment", "gollum", "watch", "status"}

\* the (kind, action) combination is one of the decision table
Listed(event, action) ==
    \/ event \in AnyActionKinds
    \/ action.tail = "" /\ action.name \in ListedActions(event)

\* C24: a (kind, action) combination that the decision table does not list,
\* such as an action that only begins with a listed name or a pull_request
\* with action milestoned, is classified NoOp.
C24_UnlistedIsNoOp ==
    (Dispatched /\ ~Listed(call.event, call.payload.action)) => result.value = <<>>

-----------------------------------------------------------------------------
\* The ping branch of webhook().

PingRequest == InProgress /\ seen.parsed /\ EventOf(req) = "ping"

\* a ping was acknowledged after its notice went to a resolved channel
C23_Witness ==
    /\ PingRequest
    /\ Answered
    /\ resp.status = 200
    /\ sent # <<>>

\* C23: a ping is not routed through get_formatted_response: each resolved
\* channel of the repository receives exactly one "webhook activated" notice,
\* and the request is acknowledged with the resolved channel list.
C23_PingNoticePerChannel ==
    PingRequest =>
        /\ \A i \in 1..Len(sent) : sent[i][2] = "ping"
        /\ \A c \in Channels : Len(SentTo(c, sent)) <= 1
        /\ SentChannels \subseteq EnabledAtLookup
        /\ (Answered /\ resp.status = 200) =>
             /\ SentChannels = EnabledAtLookup
             /\ Range(resp.channels) = EnabledAtLookup
             /\ Len(resp.channels) = Cardinality(EnabledAtLookup)

-----------------------------------------------------------------------------
\* The push branch of get_formatted_response: the summary line, then one line
\* per element of get_distinct_commits().

\* commit lists in which the commit at position i has sha i
ShaCommitLists ==
    UNION { { [i \in 1..n |-> [sha |-> i, distinct |-> cs[i].distinct,
                               blank |-> cs[i].blank]] : cs \in [1..n -> PushCommits] } :
            n \in 0..MaxPushCommits }

PushEventPayloads ==
    [created : BOOLEAN, deleted : BOOLEAN, forced : BOOLEAN,
     before_zero : BOOLEAN, after_zero : BOOLEAN, ref_tag : BOOLEAN,
     base_ref : BOOLEAN, commits : ShaCommitLists]

\* messages.append(fmt_push_summary_message() + " " + fmt_url(...))
SummaryLine(p) == [line |-> "push_summary", sha |-> 0, summary |-> fmt_push_summary_message(p)]

\* messages.append(fmt_commit_message(commit))
CommitLine(commit) == [line |-> "commit", sha |-> commit.sha, summary |-> <<>>]

\* the messages of a push event
push_messages(p) ==
    <<SummaryLine(p)>> \o
    [i \in 1..Len(get_distinct_commits(p)) |-> CommitLine(get_distinct_commits(p)[i])]

PushEventInit ==
    /\ HookIdle
    /\ current_row = "None"
    /\ current_payload = "None"
    /\ tasks = <<>>
    /\ result = NotReturned
    /\ call \in [fn : {"push_messages"}, payload : PushEventPayloads]

\* get_formatted_response(payload, row) returns for payload['event'] == 'push'
PushMessages ==
    /\ call.fn = "push_messages"
    /\ ~result.returned
    /\ result' = Returned(push_messages(call.payload))
    /\ UNCHANGED <<call, current_row, current_payload, tasks>>
    /\ UNCHANGED hookvars

PushEventNext == PushMessages

PushEventSpec == PushEventInit /\ [][PushEventNext]_vars

\* the shas of the commits of the payload that are marked distinct, in order
MarkedDistinct(p) ==
    LET d == SelectSeq(p.commits, LAMBDA c : c.distinct)
    IN [i \in 1..Len(d) |-> d[i].sha]

\* the shas of the commit lines, in the order rendered
CommitLineShas(lines) == [i \in 1..(Len(lines) - 1) |-> lines[i + 1].sha]

\* C25: a push renders the summary line first, then exactly one commit line
\* for each commit of the payload marked distinct, in payload order, and the
\* count N of the summary line is the number of commit lines.
C25_CommitLinePerDistinctCommit ==
    (call.fn = "push_messages" /\ result.returned) =>
        /\ result.value[1].line = "push_summary"
        /\ \A i \in 2..Len(result.value) : result.value[i].line = "commit"
        /\ CommitLineShas(result.value) = MarkedDistinct(call.payload)
        /\ \A i \in 1..Len(result.value[1].summary) :
             result.value[1].summary[i].fmt \in CountFormats =>
                 result.value[1].summary[i].num = Len(result.value) - 1

-----------------------------------------------------------------------------
\* The creation case of fmt_push_summary_message.

\* the element that carries the count of new distinct commits of p
NewCommitCount(p) ==
    CountPhrase("(+{} new commit{})", Len(get_distinct_commits(p)), <<>>)

\* C26: the summary of a push that created a ref ends with the count of new
\* distinct commits, for a tag as for a branch; for a branch it renders
\* "created <branch>", then "from <base>" when there is a base ref, otherwise
\* "at <after[0:7]>" only when there is no distinct commit.
C26_CreatedRefSummary ==
    (PushReturned /\ PushCase(call.payload) = "creation") =>
        LET p == call.payload
            v == result.value
        IN /\ v[Len(v)] = NewCommitCount(p)
           /\ ~p.ref_tag =>
                /\ v[2] = Phrase("created {}", <<"branch(ref)">>)
                /\ p.base_ref =>
                     (Len(v) = 4 /\ v[3] = Phrase("from {}", <<"branch(base_ref)">>))
                /\ (~p.base_ref /\ Len(get_distinct_commits(p)) = 0) =>
                     (Len(v) = 4 /\ v[3] = Phrase("at {}", <<"hash(after[0:7])">>))
                /\ (~p.base_ref /\ Len(get_distinct_commits(p)) > 0) => Len(v) = 3

-----------------------------------------------------------------------------
\* The gollum branch of get_formatted_response and fmt_gollum_summary_message.

\* most pages in a gollum payload
MaxPages == 2

\* payload['pages']: each page has an action and may have a summary
Pages == [action : {"created", "edited"}, summary : BOOLEAN]

PageLists == UNION { [1..n -> Pages] : n \in 0..MaxPages }

\* fmt_gollum_summary_message: with one page the line; with several pages
\* action + " " + count adds an int to a str and raises TypeError; with no
\* page neither branch returns and the result is None, written <<>>
fmt_gollum_summary_message(pages) ==
    IF Len(pages) = 1 THEN Returned(<<"gollum_summary">>)
    ELSE IF Len(pages) > 1 THEN Raised
    ELSE Returned(<<>>)

\* messages.append(fmt_gollum_summary_message() + " " + fmt_url(url)): None
\* + " " raises TypeError
gollum_messages(pages) ==
    LET summary == fmt_gollum_summary_message(pages)
    IN IF summary.raised \/ summary.value = <<>> THEN Raised
       ELSE Returned(summary.value)

GollumInit ==
    /\ HookIdle
    /\ current_row = "None"
    /\ current_payload = "None"
    /\ tasks = <<>>
    /\ result = NotReturned
    /\ call \in [fn : {"gollum_messages"}, action : DispatchActions, pages : PageLists]

\* get_formatted_response(payload, row) returns or raises for
\* payload['event'] == 'gollum'
GollumMessages ==
    /\ call.fn = "gollum_messages"
    /\ ~result.returned
    /\ result' = gollum_messages(call.pages)
    /\ UNCHANGED <<call, current_row, current_payload, tasks>>
    /\ UNCHANGED hookvars

GollumNext == GollumMessages

GollumSpec == GollumInit /\ [][GollumNext]_vars

\* C27: a gollum event with any action and zero, one or several pages is
\* rendered as exactly one line, and the formatter does not fail.
C27_GollumOneLine ==
    (call.fn = "gollum_messages" /\ result.returned) =>
        (~result.raised /\ Len(result.value) = 1)

-----------------------------------------------------------------------------
\* The payload object across the formatter calls made for the rows of one
\* event.  get_ref_name is called by the push summary and by every commit
\* line; current_payload is the dict handed to get_formatted_response, as it
\* is now, and call.payload is the payload as parsed.

\* most rows one event is formatted for
MaxRows == 3

\* payload['ref']: a prefix and the name after it
Refs == [prefix : {"refs/heads/", "refs/tags/", ""}, name : {"main"}]

\* the payload as parsed: it has no 'ref_name' key
RefPayloads ==
    [full_name : FullNames, ref : Refs, created : BOOLEAN, deleted : BOOLEAN,
     forced : BOOLEAN, ref_name : {"absent"}]

\* re.sub(r'^refs/(heads|tags)/', '', payload['ref'])
RefName(ref) == ref.name

RefInit ==
    /\ HookIdle
    /\ current_row = "None"
    /\ tasks = <<>>
    /\ result = NotReturned
    /\ call \in [fn : {"get_ref_name"}, module : FormattingModules,
                 payload : RefPayloads, row : {0}]
    /\ current_payload = call.payload

\* sopel_github.formatting.get_ref_name(), called while formatting for the
\* next row
GetRefName ==
    /\ call.fn = "get_ref_name"
    /\ call.module = "sopel_github"
    /\ call.row < MaxRows
    /\ call' = [call EXCEPT !.row = call.row + 1]
    /\ result' = Returned(<<RefName(current_payload.ref)>>)
    /\ UNCHANGED <<current_row, current_payload, tasks>>
    /\ UNCHANGED hookvars

\* sopel_modules.github.formatting.get_ref_name(): returns payload['ref_name']
\* when the key is there, and stores the name under that key otherwise
GetRefNameModules ==
    /\ call.fn = "get_ref_name"
    /\ call.module = "sopel_modules.github"
    /\ call.row < MaxRows
    /\ call' = [call EXCEPT !.row = call.row + 1]
    /\ IF current_payload.ref_name # "absent"
       THEN /\ result' = Returned(<<current_payload.ref_name>>)
            /\ UNCHANGED current_payload
       ELSE /\ current_payload' =
                  [current_payload EXCEPT !.ref_name = RefName(current_payload.ref)]
            /\ result' = Returned(<<RefName(current_payload.ref)>>)
    /\ UNCHANGED <<current_row, tasks>>
    /\ UNCHANGED hookvars

RefNext == GetRefName \/ GetRefNameModules

RefSpec == RefInit /\ [][RefNext]_vars

\* C28: the payload is immutable after parsing: formatting the event for any
\* number of rows leaves it as parsed, and every row's lines are computed
\* from that same payload.
C28_PayloadUnchangedByFormatting ==
    call.fn = "get_ref_name" =>
        /\ current_payload = call.payload
        /\ result.returned => result = Returned(<<RefName(call.payload.ref)>>)

-----------------------------------------------------------------------------
\* The summary line of a push: fmt_push_summary_message() and the link of
\* get_push_summary_url().

get_push_summary_url(p) ==
    IF p.created \/ p.before_zero THEN
        IF Len(get_distinct_commits(p)) < 0
        THEN "repo_url/commits/ref"
        ELSE "compare"
    ELSE IF p.deleted THEN "repo_url/commit/before[0:7]"
    ELSE IF p.forced THEN "repo_url/commits/ref"
    ELSE IF Len(get_distinct_commits(p)) = 1 THEN "commits[0].url"
    ELSE "compare"

\* fmt_push_summary_message() + " " + fmt_url(get_push_summary_url())
push_summary_line(p) ==
    [summary |-> fmt_push_summary_message(p), url |-> get_push_summary_url(p)]

PushUrlInit ==
    /\ HookIdle
    /\ current_row = "None"
    /\ current_payload = "None"
    /\ tasks = <<>>
    /\ result = NotReturned
    /\ call \in [fn : {"push_summary_line"}, payload : PushPayloads]

PushSummaryLine ==
    /\ call.fn = "push_summary_line"
    /\ ~result.returned
    /\ result' = Returned(push_summary_line(call.payload))
    /\ UNCHANGED <<call, current_row, current_payload, tasks>>
    /\ UNCHANGED hookvars

PushUrlNext == PushSummaryLine

PushUrlSpec == PushUrlInit /\ [][PushUrlNext]_vars

\* the summary has an element with the format string fmt
Renders(summary, fmt) == \E i \in 1..Len(summary) : summary[i].fmt = fmt

\* the summary renders "pushed 1 new commit"
RendersPushedOne(summary) ==
    \E i \in 1..Len(summary) :
        summary[i].fmt = "pushed {} new commit{} to {}" /\ summary[i].num = 1

\* C29: the link of the push summary is chosen by the case the text is chosen
\* by: a summary that renders "deleted" links the before commit, one that
\* renders "force-pushed" links the commits of the branch, and the URL of
\* the single commit is used only when the summary renders "pushed 1 new
\* commit".
C29_UrlFollowsSummaryCase ==
    (call.fn = "push_summary_line" /\ result.returned) =>
        LET s == result.value.summary
            u == result.value.url
        IN /\ Renders(s, "deleted {} at {}") => u = "repo_url/commit/before[0:7]"
           /\ Renders(s, "force-pushed {} from {} to {}") => u = "repo_url/commits/ref"
           /\ u = "commits[0].url" => RendersPushedOne(s)


-----------------------------------------------------------------------------
\* The gh_hooks table between .gh-hook commands and webhook events.

\* the value of the enabled column a .gh-hook command with this argument leaves
Flag(enabled) == IF enabled THEN "enabled" ELSE "disabled"

\* the channels whose row for the repository named by the payload in progress
\* is enabled
EnabledNow == { c \in Channels : hooks[<<c, Lower(payload.full_name)>>] = "enabled" }

\* a step that changes the table writes one (channel, repository) row with the
\* argument of a command, and is no step of the webhook handler
TableStep ==
    hooks' # hooks =>
        /\ \E c \in Channels, r \in Repos, e \in BOOLEAN :
                hooks' = [hooks EXCEPT ![<<c, r>>] = Flag(e)]
        /\ UNCHANGED <<secret, req, pc, payload, targets, ti, messages, sent, resp, seen>>

\* the lookup of the handler resolves the channels whose row is enabled
LookupStep ==
    (pc = "parsed" /\ pc' = "loop") =>
        /\ Range(targets') = { [channel |-> c, repo_name |-> Lower(payload.full_name)] :
                                c \in EnabledNow }
        /\ Len(targets') = Cardinality(EnabledNow)

=============================================================================
